---- MODULE Spec2Model ----
(***************************************************************************)
(* A model of backend/server.py: the device-usage compliance backend.      *)
(*                                                                         *)
(* The three MongoDB collections (users, bluetooth_devices,                *)
(* usage_sessions) are sequences of documents in insertion order, the      *)
(* ConnectionManager is the map active_connections, and every request      *)
(* handler is a small process whose steps are the handler's awaits, so     *)
(* that requests interleave where the event loop lets them.                *)
(*                                                                         *)
(* Time is an integer number of ticks, TicksPerDay of them in a day.       *)
(* Python floats are modelled by exact rationals <<num, den>>, den > 0.    *)
(***************************************************************************)
EXTENDS Integers, Sequences, FiniteSets, TLC

VARIABLES
    now,                \* datetime.utcnow(), in ticks
    uuid,               \* number of uuid4() values drawn so far
    users,              \* db.users
    usage_sessions,     \* db.usage_sessions
    bluetooth_devices,  \* db.bluetooth_devices
    active_connections, \* manager.active_connections: user id -> socket
    sockets,            \* each websocket's state
    inbox,              \* what each websocket's client has been sent
    rec,                \* the running receive_bluetooth_data requests
    comp,               \* the running get_patient_compliance request
    ana,                \* the last get_patient_analytics response
    usage,              \* the last get_patient_usage response
    roster,             \* the running get_doctor_patients request
    logins              \* the running login requests

vars == <<now, uuid, users, usage_sessions, bluetooth_devices,
          active_connections, sockets, inbox, rec, comp, ana, usage, roster, logins>>

-----------------------------------------------------------------------------
(* Bounds of the model.                                                    *)

TicksPerDay == 2
MaxUuid == 4
MaxDevices == 2
MaxSockets == 2
MaxRec == 2
MaxLogins == 2
DevicesHorizon == 1
TrendSlack == 1
BulkSlack == 1
AnalyticsHorizonDays == 3
RosterSlack == 1

-----------------------------------------------------------------------------
(* Program constants.                                                      *)

TargetMinutesPerDay == 480
ComplianceWindowDays == 30
TrendWindowDays == 7
SessionFetchLimit == 1000
PatientFetchLimit == 100

Days(n) == n * TicksPerDay

-----------------------------------------------------------------------------
(* Exact rationals standing for Python floats.                             *)

\* Fractions are kept in lowest terms with a positive denominator.
RECURSIVE Gcd(_, _)
Gcd(a, b) == IF b = 0 THEN a ELSE Gcd(b, a % b)

Rat(n, d) ==
    LET g == Gcd(IF n < 0 THEN -n ELSE n, IF d < 0 THEN -d ELSE d)
    IN  IF d < 0 THEN <<(-n) \div g, (-d) \div g>> ELSE <<n \div g, d \div g>>
RatOfInt(n) == <<n, 1>>
RatLT(a, b) == a[1] * b[2] < b[1] * a[2]
RatEQ(a, b) == a[1] * b[2] = b[1] * a[2]
RatLE(a, b) == RatLT(a, b) \/ RatEQ(a, b)
RatAbs(a) == IF a[1] < 0 THEN <<-a[1], a[2]>> ELSE a
RatMulInt(a, k) == Rat(a[1] * k, a[2])

\* Python's min(k, x) for an int k and a float x: x when x < k, else k.
PyMin(k, x) == IF RatLT(x, RatOfInt(k)) THEN x ELSE RatOfInt(k)

Abs(i) == IF i < 0 THEN -i ELSE i

\* round(x, 1) for x >= 0, in tenths: the nearest tenth, a tie to the even one.
RoundTenths(x) ==
    LET n == x[1] * 10
        q == n \div x[2]
        r2 == 2 * (n % x[2])
    IN  IF r2 > x[2] THEN q + 1
        ELSE IF r2 < x[2] THEN q
        ELSE IF q % 2 = 0 THEN q ELSE q + 1

-----------------------------------------------------------------------------
(* Documents.                                                              *)

\* User (the fields the handlers read); None is "".
UserDoc(id, name, user_type, patient_id, doctor_id) ==
    [id |-> id, name |-> name, user_type |-> user_type,
     patient_id |-> patient_id, doctor_id |-> doctor_id]

\* BluetoothDevice.
DeviceDoc(id, patient_id, device_name, device_id, t) ==
    [id |-> id, patient_id |-> patient_id, device_name |-> device_name,
     device_id |-> device_id, is_connected |-> TRUE, last_connected |-> t,
     created_at |-> t]

\* compliance_score = min(100, (usage_duration / 480) * 100)
ScoreNoCap(d) == RatMulInt(Rat(d, TargetMinutesPerDay), 100)
ComplianceScore(d) == PyMin(100, RatMulInt(Rat(d, TargetMinutesPerDay), 100))

\* DeviceUsageSession(...) as receive_bluetooth_data builds it: the id is a
\* fresh uuid4, created_at is utcnow() at construction, the timestamp is
\* the caller's (utcnow() by default). NewSessionSameId, a mutant, gives
\* every session one id.
NewSessionSameId(data, id, t) ==
    [id |-> 0,
     patient_id |-> data.patient_id,
     device_id |-> data.device_id,
     start_time |-> data.timestamp - data.usage_duration,
     end_time |-> data.timestamp,
     duration_minutes |-> data.usage_duration,
     time_of_day |-> data.time_of_day,
     compliance_score |-> ComplianceScore(data.usage_duration),
     created_at |-> t]
NewSession(data, id, t) ==
    [id |-> id,
     patient_id |-> data.patient_id,
     device_id |-> data.device_id,
     start_time |-> data.timestamp - data.usage_duration,
     end_time |-> data.timestamp,
     duration_minutes |-> data.usage_duration,
     time_of_day |-> data.time_of_day,
     compliance_score |-> ComplianceScore(data.usage_duration),
     created_at |-> t]

NoSession ==
    [id |-> 0, patient_id |-> 0, device_id |-> "", start_time |-> 0,
     end_time |-> 0, duration_minutes |-> 0, time_of_day |-> "",
     compliance_score |-> RatOfInt(0), created_at |-> 0]

\* The request body as the client sent it. usage_duration_is_int is FALSE
\* for a body whose usage_duration is no integer (a malformed duration).
BluetoothData(p, d, dur, tod, ts, isint) ==
    [patient_id |-> p, device_id |-> d, usage_duration |-> dur,
     time_of_day |-> tod, timestamp |-> ts, usage_duration_is_int |-> isint]

\* What pydantic checks of a BluetoothData body: the field types, and
\* nothing else (no range for usage_duration, no enumeration for
\* time_of_day).
BluetoothDataParses(data) == data.usage_duration_is_int

-----------------------------------------------------------------------------
(* The collections' operations.                                            *)

\* to_list(n): at most the first n documents of the cursor.
TakeAll(s, n) == s
Take(s, n) == IF Len(s) <= n THEN s ELSE SubSeq(s, 1, n)

\* The least of a set of indices, 0 if there is none: the first match.
FirstIndex(S) ==
    IF S = {} THEN 0 ELSE CHOOSE i \in S : \A j \in S : i <= j

\* db.bluetooth_devices.update_one({device_id, patient_id},
\*     {$set: {is_connected: True, last_connected: t}}): the first matching
\* document is updated; without one nothing is written (no upsert).
UpsertConnected(devs, did, p, t) ==
    LET i == FirstIndex({j \in 1..Len(devs) :
                            devs[j].device_id = did /\ devs[j].patient_id = p})
    IN  IF i = 0
        THEN Append(devs, DeviceDoc(0, p, "", did, t))
        ELSE [devs EXCEPT ![i].is_connected = TRUE, ![i].last_connected = t]
UpdateConnected(devs, did, p, t) ==
    LET i == FirstIndex({j \in 1..Len(devs) :
                            devs[j].device_id = did /\ devs[j].patient_id = p})
    IN  IF i = 0
        THEN devs
        ELSE [devs EXCEPT ![i].is_connected = TRUE, ![i].last_connected = t]

\* The same find without the time filter: a mutant.
SessionsOfPatient(p, from) ==
    LET Match(x) == x.patient_id = p
    IN  Take(SelectSeq(usage_sessions, Match), SessionFetchLimit)

\* find({"patient_id": p, "created_at": {"$gte": from}}).to_list(1000)
SessionsSince(p, from) ==
    LET Match(x) == x.patient_id = p /\ x.created_at >= from
    IN  Take(SelectSeq(usage_sessions, Match), SessionFetchLimit)

\* find({"patient_id": p, "created_at": {"$gte": from, "$lt": to}}).to_list(1000)
SessionsBetween(p, from, to) ==
    LET Match(x) == x.patient_id = p /\ x.created_at >= from /\ x.created_at < to
    IN  Take(SelectSeq(usage_sessions, Match), SessionFetchLimit)

\* sum(session.get("duration_minutes", 0) for session in s)
RECURSIVE SumRange(_, _, _)
SumRange(s, lo, hi) ==
    IF lo > hi THEN 0
    ELSE IF lo = hi THEN s[lo].duration_minutes
    ELSE LET mid == (lo + hi) \div 2
         IN  SumRange(s, lo, mid) + SumRange(s, mid + 1, hi)
TotalDuration(s) == SumRange(s, 1, Len(s))

-----------------------------------------------------------------------------
(* ConnectionManager and the websocket endpoint.                           *)

MapSet(f, k, v) == [x \in DOMAIN f \cup {k} |-> IF x = k THEN v ELSE f[x]]
MapDel(f, k) == [x \in DOMAIN f \ {k} |-> f[x]]

SockIds == 1..MaxSockets

\* websocket_endpoint up to its first receive_text: manager.connect accepts
\* the socket and registers it under user_id, replacing what was there.
WsConnect(k, u) ==
    /\ sockets[k].state = "new"
    /\ sockets' = [sockets EXCEPT ![k] = [user |-> u, state |-> "open"]]
    /\ active_connections' = MapSet(active_connections, u, k)
    /\ UNCHANGED <<now, uuid, users, usage_sessions, bluetooth_devices, inbox,
                   rec, comp, ana, usage, roster, logins>>

\* The client goes away; the handler has not seen the disconnect yet.
WsClientClose(k) ==
    /\ sockets[k].state = "open"
    /\ sockets' = [sockets EXCEPT ![k].state = "closing"]
    /\ UNCHANGED <<now, uuid, users, usage_sessions, bluetooth_devices,
                   active_connections, inbox, rec, comp, ana, usage, roster, logins>>

\* receive_text raises WebSocketDisconnect: manager.disconnect(user_id)
\* deletes the user's entry, whichever socket it holds.
WsDisconnect(k) ==
    /\ sockets[k].state = "closing"
    /\ sockets' = [sockets EXCEPT ![k].state = "dead"]
    /\ active_connections' = MapDel(active_connections, sockets[k].user)
    /\ UNCHANGED <<now, uuid, users, usage_sessions, bluetooth_devices, inbox,
                   rec, comp, ana, usage, roster, logins>>

\* The client sends text that is no JSON: json.loads raises, the handler
\* ends without manager.disconnect and the server closes the socket.
WsBadMessage(k) ==
    /\ sockets[k].state = "open"
    /\ sockets' = [sockets EXCEPT ![k].state = "crashed"]
    /\ UNCHANGED <<now, uuid, users, usage_sessions, bluetooth_devices,
                   active_connections, inbox, rec, comp, ana, usage, roster, logins>>

-----------------------------------------------------------------------------
(* POST /patients/{patient_id}/devices                                     *)

AddPatientDevice(p, name, did) ==
    /\ Len(bluetooth_devices) < MaxDevices
    /\ uuid < MaxUuid
    /\ uuid' = uuid + 1
    /\ bluetooth_devices' =
           Append(bluetooth_devices, DeviceDoc(uuid + 1, p, name, did, now))
    /\ UNCHANGED <<now, users, usage_sessions, active_connections, sockets,
                   inbox, rec, comp, ana, usage, roster, logins>>

-----------------------------------------------------------------------------
(* POST /bluetooth/data: receive_bluetooth_data, one action per await.     *)

RecIds == 1..MaxRec

RecIdle ==
    [pc |-> "idle", data |-> BluetoothData(0, "", 0, "", 0, TRUE),
     session |-> NoSession, status |-> 0, error |-> "none"]

RecDone(r, status, error) ==
    rec' = [rec EXCEPT ![r].pc = "done", ![r].status = status,
                       ![r].error = error]

\* The request arrives: the body is parsed (422 when it does not parse) and
\* the session object is built, then insert_one is awaited.
ReceiveBluetoothData(r, data) ==
    /\ rec[r].pc = "idle"
    /\ uuid < MaxUuid
    /\ IF BluetoothDataParses(data)
       THEN /\ rec' = [rec EXCEPT ![r] =
                         [pc |-> "insert", data |-> data,
                          session |-> NewSession(data, uuid + 1, now),
                          status |-> 0, error |-> "none"]]
            /\ uuid' = uuid + 1
       ELSE /\ rec' = [rec EXCEPT ![r] =
                         [pc |-> "done", data |-> data, session |-> NoSession,
                          status |-> 422, error |-> "invalid"]]
            /\ uuid' = uuid
    /\ UNCHANGED <<now, users, usage_sessions, bluetooth_devices,
                   active_connections, sockets, inbox, comp, ana, usage, roster, logins>>

\* The insert acknowledged and the document lost: a mutant.
InsertSessionDropped(r, ok) ==
    /\ rec[r].pc = "insert"
    /\ usage_sessions' = usage_sessions
    /\ IF ok THEN rec' = [rec EXCEPT ![r].pc = "update"]
             ELSE RecDone(r, 500, "storage")
    /\ UNCHANGED <<now, uuid, users, bluetooth_devices, active_connections,
                   sockets, inbox, comp, ana, usage, roster, logins>>

\* await db.usage_sessions.insert_one(session.dict())
InsertSession(r, ok) ==
    /\ rec[r].pc = "insert"
    /\ IF ok
       THEN /\ usage_sessions' = Append(usage_sessions, rec[r].session)
            /\ rec' = [rec EXCEPT ![r].pc = "update"]
       ELSE /\ usage_sessions' = usage_sessions
            /\ RecDone(r, 500, "storage")
    /\ UNCHANGED <<now, uuid, users, bluetooth_devices, active_connections,
                   sockets, inbox, comp, ana, usage, roster, logins>>

\* await db.bluetooth_devices.update_one(...)
UpdateDevice(r, ok) ==
    /\ rec[r].pc = "update"
    /\ IF ok
       THEN /\ bluetooth_devices' =
                   UpdateConnected(bluetooth_devices, rec[r].data.device_id,
                                   rec[r].data.patient_id, now)
            /\ rec' = [rec EXCEPT ![r].pc = "send"]
       ELSE /\ bluetooth_devices' = bluetooth_devices
            /\ RecDone(r, 500, "storage")
    /\ UNCHANGED <<now, uuid, users, usage_sessions, active_connections,
                   sockets, inbox, comp, ana, usage, roster, logins>>

\* manager.send_personal_message(message, user_id), called from handler
\* slot r: nothing without a registered socket; send_text on an open socket
\* delivers; on a socket whose peer is gone it raises or the message is
\* dropped, as the server build has it. The exception is not caught.
SendPersonalMessage(r, msg, raises) ==
    LET u == rec[r].data.patient_id
        k == active_connections[u]
    IN  IF u \notin DOMAIN active_connections
        THEN inbox' = inbox /\ RecDone(r, 200, "none")
        ELSE IF sockets[k].state = "open"
        THEN inbox' = [inbox EXCEPT ![k] = Append(@, msg)] /\ RecDone(r, 200, "none")
        ELSE IF raises
        THEN inbox' = inbox /\ RecDone(r, 500, "channel")
        ELSE inbox' = inbox /\ RecDone(r, 200, "none")

\* await manager.send_personal_message({"type": "usage_update", ...}) and
\* the return of {"success": True, "session": ...}.
SendUpdate(r, raises) ==
    /\ rec[r].pc = "send"
    /\ SendPersonalMessage(r, [type |-> "usage_update", data |-> rec[r].session],
                           raises)
    /\ UNCHANGED <<now, uuid, users, usage_sessions, bluetooth_devices,
                   active_connections, sockets, comp, ana, usage, roster, logins>>

\* The response has been sent; the slot is free again.
RecReturn(r) ==
    /\ rec[r].pc = "done"
    /\ rec' = [rec EXCEPT ![r] = RecIdle]
    /\ UNCHANGED <<now, uuid, users, usage_sessions, bluetooth_devices,
                   active_connections, sockets, inbox, comp, ana, usage, roster, logins>>

-----------------------------------------------------------------------------
(* calculate_usage_trend, from the two fetched weeks.                      *)

Trend(direction, tenths) == [direction |-> direction, tenths |-> tenths]
NoTrend == Trend("", 0)

\* The percentage is kept in tenths: round(x, 1) is RoundTenths(x), the
\* literal 100 is 1000 tenths.
TrendBandInclusive(last_week_duration, prev_week_duration) ==
    LET change_percentage ==
            RatMulInt(Rat(last_week_duration - prev_week_duration,
                          prev_week_duration), 100)
    IN  IF prev_week_duration = 0
        THEN IF last_week_duration > 0
             THEN Trend("increasing", 1000)
             ELSE Trend("stable", 0)
        ELSE IF RatLE(RatOfInt(10), change_percentage)
        THEN Trend("increasing", RoundTenths(change_percentage))
        ELSE IF RatLE(change_percentage, RatOfInt(-10))
        THEN Trend("decreasing", RoundTenths(RatAbs(change_percentage)))
        ELSE Trend("stable", RoundTenths(RatAbs(change_percentage)))
UsageTrend(last_week_duration, prev_week_duration) ==
    LET change_percentage ==
            RatMulInt(Rat(last_week_duration - prev_week_duration,
                          prev_week_duration), 100)
    IN  IF prev_week_duration = 0
        THEN IF last_week_duration > 0
             THEN Trend("increasing", 1000)
             ELSE Trend("stable", 0)
        ELSE IF RatLT(RatOfInt(10), change_percentage)
        THEN Trend("increasing", RoundTenths(change_percentage))
        ELSE IF RatLT(change_percentage, RatOfInt(-10))
        THEN Trend("decreasing", RoundTenths(RatAbs(change_percentage)))
        ELSE Trend("stable", RoundTenths(RatAbs(change_percentage)))

-----------------------------------------------------------------------------
(* GET /patients/{patient_id}/compliance: get_patient_compliance, one      *)
(* action per await. calculate_usage_trend is the last two of them.        *)

Absent == [some |-> FALSE, at |-> 0]
Some(t) == [some |-> TRUE, at |-> t]

RECURSIVE MaxCreated(_, _, _)
MaxCreated(s, lo, hi) ==
    IF lo = hi THEN s[lo].created_at
    ELSE LET mid == (lo + hi) \div 2
             a == MaxCreated(s, lo, mid)
             b == MaxCreated(s, mid + 1, hi)
         IN  IF a >= b THEN a ELSE b

\* max(created_at ...) if sessions else None
LastSession(s) == IF Len(s) = 0 THEN Absent ELSE Some(MaxCreated(s, 1, Len(s)))

\* device and device.get("is_connected", False) if device else False, for
\* device = find_one({"patient_id": p}): the patient's first device.
DeviceConnected(p) ==
    LET i == FirstIndex({j \in 1..Len(bluetooth_devices) :
                            bluetooth_devices[j].patient_id = p})
    IN  IF i = 0 THEN FALSE ELSE bluetooth_devices[i].is_connected

Summary(kind, status, p, name, n, total, avg, pct, last, connected, trend) ==
    [kind |-> kind, status |-> status, patient_id |-> p, patient_name |-> name,
     total_sessions |-> n, total_duration_minutes |-> total,
     average_daily_usage |-> avg, compliance_percentage |-> pct,
     last_session |-> last, device_connected |-> connected,
     usage_trend |-> trend]

NoSummary ==
    Summary("", 0, 0, "", 0, 0, RatOfInt(0), RatOfInt(0), Absent, FALSE, NoTrend)

\* An error response: only kind and status say anything.
Failure(status, p) ==
    Summary("error", status, p, "", 0, 0, RatOfInt(0), RatOfInt(0), Absent,
            FALSE, NoTrend)

\* The metrics of lines 233-243 and the returned dict.
ComplianceResponse(p, name, sessions, connected, trend) ==
    LET total_duration == TotalDuration(sessions)
        target_minutes_per_month ==
            ComplianceWindowDays * TargetMinutesPerDay
    IN  Summary("response", 200, p, name, Len(sessions), total_duration,
                IF total_duration > 0
                THEN Rat(total_duration, ComplianceWindowDays)
                ELSE RatOfInt(0),
                PyMin(100, RatMulInt(Rat(total_duration,
                                         target_minutes_per_month), 100)),
                LastSession(sessions), connected, trend)

CompIdle ==
    [pc |-> "idle", caller |-> "", patient_id |-> 0, name |-> "",
     called_at |-> 0, start_date |-> 0, sessions |-> <<>>, connected |-> FALSE,
     trend_now |-> 0, last_week |-> <<>>, prev_week |-> <<>>,
     response |-> NoSummary]

CompFail(status) ==
    comp' = [comp EXCEPT !.pc = "done",
                         !.response = Failure(status, comp.patient_id)]

CompUnchanged ==
    UNCHANGED <<now, uuid, users, usage_sessions, bluetooth_devices,
                active_connections, sockets, inbox, rec, ana, usage, logins>>

\* The handler is entered (by the route, or by get_doctor_patients) and
\* awaits db.users.find_one({"id": patient_id}).
CompCall(caller, p) ==
    comp' = [CompIdle EXCEPT !.pc = "user", !.caller = caller,
                             !.patient_id = p, !.called_at = now]

GetPatientCompliance(p) ==
    /\ comp.pc = "idle"
    /\ roster.pc \notin {"loop", "wait"}
    /\ CompCall("route", p)
    /\ UNCHANGED roster
    /\ CompUnchanged

\* find_one returns: 404 without a user; else start_date is taken and the
\* 30-day find is awaited.
CompFindUser(ok) ==
    /\ comp.pc = "user"
    /\ LET i == FirstIndex({j \in 1..Len(users) : users[j].id = comp.patient_id})
       IN  IF ~ok THEN CompFail(500)
           ELSE IF i = 0 THEN CompFail(404)
           ELSE comp' = [comp EXCEPT !.pc = "sessions", !.name = users[i].name,
                            !.start_date = now - Days(ComplianceWindowDays)]
    /\ UNCHANGED roster
    /\ CompUnchanged

\* The 30-day find returns; the device find_one is awaited.
CompFetchSessions(ok) ==
    /\ comp.pc = "sessions"
    /\ IF ok
       THEN comp' = [comp EXCEPT !.pc = "device",
                        !.sessions = SessionsSince(comp.patient_id, comp.start_date)]
       ELSE CompFail(500)
    /\ UNCHANGED roster
    /\ CompUnchanged

\* The device find_one returns; the metrics are computed,
\* calculate_usage_trend takes its own now and awaits the last-week find.
CompFindDevice(ok) ==
    /\ comp.pc = "device"
    /\ IF ok
       THEN comp' = [comp EXCEPT !.pc = "last_week",
                        !.connected = DeviceConnected(comp.patient_id),
                        !.trend_now = now]
       ELSE CompFail(500)
    /\ UNCHANGED roster
    /\ CompUnchanged

\* The last-week find returns; the previous-week find is awaited.
CompLastWeek(ok) ==
    /\ comp.pc = "last_week"
    /\ IF ok
       THEN comp' = [comp EXCEPT !.pc = "prev_week",
                        !.last_week =
                            SessionsSince(comp.patient_id,
                                          comp.trend_now - Days(TrendWindowDays))]
       ELSE CompFail(500)
    /\ UNCHANGED roster
    /\ CompUnchanged

\* The previous-week find returns; the trend and the response are built.
CompPrevWeek(ok) ==
    /\ comp.pc = "prev_week"
    /\ IF ok
       THEN LET prev == SessionsBetween(comp.patient_id,
                            comp.trend_now - Days(2 * TrendWindowDays),
                            comp.trend_now - Days(TrendWindowDays))
            IN  comp' = [comp EXCEPT !.pc = "done", !.prev_week = prev,
                            !.response =
                                ComplianceResponse(comp.patient_id, comp.name,
                                    comp.sessions, comp.connected,
                                    UsageTrend(TotalDuration(comp.last_week),
                                               TotalDuration(prev)))]
       ELSE CompFail(500)
    /\ UNCHANGED roster
    /\ CompUnchanged

\* The route's response has been sent.
CompReturn ==
    /\ comp.pc = "done"
    /\ comp.caller = "route"
    /\ comp' = CompIdle
    /\ UNCHANGED roster
    /\ CompUnchanged

-----------------------------------------------------------------------------
(* GET /doctors/{doctor_id}/patients: get_doctor_patients. The loop calls  *)
(* get_patient_compliance for one patient after the other.                 *)

\* PatientCompliance(patient_id, patient_name, 0, 0, 0, 0, None, False)
Placeholder(patient) ==
    Summary("placeholder", 200, patient.id, patient.name, 0, 0, RatOfInt(0),
            RatOfInt(0), Absent, FALSE, NoTrend)

\* The except branch taken only for a patient who is not found, any other
\* failure standing in the list as it is: a mutant.
RosterEntryReraise(patient, response) ==
    IF response.status = 200 THEN response
    ELSE IF response.status = 404 THEN Placeholder(patient)
    ELSE response

\* try: the response of get_patient_compliance; except: the placeholder.
RosterEntry(patient, response) ==
    IF response.status = 200 THEN response ELSE Placeholder(patient)

RosterIdle ==
    [pc |-> "idle", patients |-> <<>>, idx |-> 0, out |-> <<>>, status |-> 0]

RosterUnchanged ==
    UNCHANGED <<now, uuid, users, usage_sessions, bluetooth_devices,
                active_connections, sockets, inbox, rec, ana, usage, logins>>

\* The handler is entered and awaits
\* db.users.find({"user_type": "patient"}).to_list(100).
GetDoctorPatients ==
    /\ roster.pc = "idle"
    /\ comp.pc = "idle"
    /\ roster' = [RosterIdle EXCEPT !.pc = "find"]
    /\ UNCHANGED comp
    /\ RosterUnchanged

\* The find returns: the loop starts, or the empty list is returned.
RosterFindPatients(ok) ==
    /\ roster.pc = "find"
    /\ LET IsPatient(x) == x.user_type = "patient"
           patients == Take(SelectSeq(users, IsPatient), PatientFetchLimit)
       IN  IF ~ok THEN roster' = [roster EXCEPT !.pc = "done", !.status = 500]
           ELSE IF Len(patients) = 0
           THEN roster' = [roster EXCEPT !.pc = "done", !.status = 200]
           ELSE roster' = [roster EXCEPT !.pc = "loop", !.patients = patients,
                                         !.idx = 1]
    /\ UNCHANGED comp
    /\ RosterUnchanged

\* await get_patient_compliance(patient["id"])
RosterCall ==
    /\ roster.pc = "loop"
    /\ comp.pc = "idle"
    /\ CompCall("roster", roster.patients[roster.idx].id)
    /\ roster' = [roster EXCEPT !.pc = "wait"]
    /\ RosterUnchanged

\* The call returns or raises; the entry is appended and the loop goes on,
\* or the list is returned.
RosterCollect ==
    /\ roster.pc = "wait"
    /\ comp.pc = "done"
    /\ comp.caller = "roster"
    /\ LET out == Append(roster.out,
                         RosterEntry(roster.patients[roster.idx], comp.response))
       IN  IF roster.idx = Len(roster.patients)
           THEN roster' = [roster EXCEPT !.pc = "done", !.status = 200,
                                         !.out = out]
           ELSE roster' = [roster EXCEPT !.pc = "loop", !.out = out,
                                         !.idx = roster.idx + 1]
    /\ comp' = CompIdle
    /\ RosterUnchanged

\* The response has been sent.
RosterReturn ==
    /\ roster.pc = "done"
    /\ roster' = RosterIdle
    /\ UNCHANGED comp
    /\ RosterUnchanged

-----------------------------------------------------------------------------
(* POST /auth/login: get_user_by_login and login, one action per await.    *)

LoginIds == 1..MaxLogins

UserLogin(name, patient_id, doctor_id, user_type) ==
    [name |-> name, patient_id |-> patient_id, doctor_id |-> doctor_id,
     user_type |-> user_type]

NoUser == UserDoc(0, "", "", "", "")

LoginIdle ==
    [pc |-> "idle", data |-> UserLogin("", "", "", ""), user |-> NoUser]

\* The filter get_user_by_login gives find_one.
LoginMatch(data, x) ==
    IF data.user_type = "patient"
    THEN x.name = data.name /\ x.patient_id = data.patient_id
         /\ x.user_type = "patient"
    ELSE x.name = data.name /\ x.doctor_id = data.doctor_id
         /\ x.user_type = "doctor"

\* Whether get_user_by_login queries at all: a patient login with a
\* patient_id, a doctor login with a doctor_id; else it returns None.
LoginQueries(data) ==
    \/ data.user_type = "patient" /\ data.patient_id # ""
    \/ data.user_type = "doctor" /\ data.doctor_id # ""

\* User(**login_data.dict()), with a fresh uuid4 as id.
NewUser(data, id) ==
    UserDoc(id, data.name, data.user_type, data.patient_id, data.doctor_id)

LoginUnchanged ==
    UNCHANGED <<now, usage_sessions, bluetooth_devices, active_connections,
                sockets, inbox, rec, comp, ana, usage, roster>>

\* The request arrives: find_one is awaited, or (no query) the user is
\* built and insert_one is awaited.
Login(l, data) ==
    /\ logins[l].pc = "idle"
    /\ uuid < MaxUuid
    /\ IF LoginQueries(data)
       THEN /\ logins' = [logins EXCEPT ![l] =
                            [pc |-> "find", data |-> data, user |-> NoUser]]
            /\ uuid' = uuid
       ELSE /\ logins' = [logins EXCEPT ![l] =
                            [pc |-> "insert", data |-> data,
                             user |-> NewUser(data, uuid + 1)]]
            /\ uuid' = uuid + 1
    /\ users' = users
    /\ LoginUnchanged

\* find_one returns: the user found is returned, or a new one is built and
\* insert_one is awaited.
LoginFind(l) ==
    /\ logins[l].pc = "find"
    /\ LET i == FirstIndex({j \in 1..Len(users) :
                               LoginMatch(logins[l].data, users[j])})
       IN  IF i # 0
           THEN /\ logins' = [logins EXCEPT ![l].pc = "done",
                                            ![l].user = users[i]]
                /\ uuid' = uuid
           ELSE /\ logins' = [logins EXCEPT ![l].pc = "insert",
                                ![l].user = NewUser(logins[l].data, uuid + 1)]
                /\ uuid' = uuid + 1
    /\ users' = users
    /\ LoginUnchanged

\* insert_one returns; the new user is returned.
LoginInsert(l) ==
    /\ logins[l].pc = "insert"
    /\ users' = Append(users, logins[l].user)
    /\ logins' = [logins EXCEPT ![l].pc = "done"]
    /\ uuid' = uuid
    /\ LoginUnchanged

\* The response has been sent.
LoginReturn(l) ==
    /\ logins[l].pc = "done"
    /\ logins' = [logins EXCEPT ![l] = LoginIdle]
    /\ UNCHANGED <<uuid, users>>
    /\ LoginUnchanged

-----------------------------------------------------------------------------
(* GET /patients/{patient_id}/analytics: get_patient_analytics. The one    *)
(* await is the find; the rest runs without yielding.                      *)

\* strftime("%Y-%m-%d"): the calendar day of a time.
DateKey(t) == t \div TicksPerDay

\* .sort("created_at", 1): ascending, equal keys in insertion order.
RECURSIVE InsertSorted(_, _)
InsertSorted(s, x) ==
    IF Len(s) = 0 THEN <<x>>
    ELSE IF s[Len(s)].created_at <= x.created_at THEN Append(s, x)
    ELSE Append(InsertSorted(SubSeq(s, 1, Len(s) - 1), x), s[Len(s)])
RECURSIVE SortByCreated(_)
SortByCreated(s) ==
    IF Len(s) = 0 THEN <<>>
    ELSE InsertSorted(SortByCreated(SubSeq(s, 1, Len(s) - 1)), s[Len(s)])

\* find({...}).sort("created_at", 1).to_list(1000)
SessionsSinceSorted(p, from) ==
    LET Match(x) == x.patient_id = p /\ x.created_at >= from
    IN  Take(SortByCreated(SelectSeq(usage_sessions, Match)), SessionFetchLimit)

\* daily_usage after the loop over the sessions: date -> minutes.
DailyUsage(s) ==
    [d \in {DateKey(s[i].created_at) : i \in 1..Len(s)} |->
        LET OnDay(x) == DateKey(x.created_at) = d
        IN  TotalDuration(SelectSeq(s, OnDay))]

\* day_night_usage after the loop; the loop raises KeyError at a session
\* whose time_of_day is no key of it.
DayNightKeys == {"day", "night"}
DayNightRaises(s) == \E i \in 1..Len(s) : s[i].time_of_day \notin DayNightKeys
DayNightUsage(s) ==
    [k \in DayNightKeys |->
        LET Of(x) == x.time_of_day = k
        IN  TotalDuration(SelectSeq(s, Of))]

Point(date, minutes) == [date |-> date, usage_minutes |-> minutes]

\* while current_date <= end: one point, and the date goes on a day.
RECURSIVE TimeSeriesLoop(_, _, _, _)
TimeSeriesLoop(series, current_date, end, daily_usage) ==
    IF current_date <= end
    THEN LET date_key == DateKey(current_date)
         IN  TimeSeriesLoop(
                 Append(series,
                        Point(date_key,
                              IF date_key \in DOMAIN daily_usage
                              THEN daily_usage[date_key] ELSE 0)),
                 current_date + Days(1), end, daily_usage)
    ELSE series

\* The loop entered one day late: a mutant.
TimeSeriesFromNextDay(start_date, end, daily_usage) ==
    TimeSeriesLoop(<<>>, start_date + Days(1), end, daily_usage)

\* current_date = start_date, then the loop.
TimeSeries(start_date, end, daily_usage) ==
    TimeSeriesLoop(<<>>, start_date, end, daily_usage)

RECURSIVE SumOver(_, _)
SumOver(f, S) ==
    IF S = {} THEN 0
    ELSE LET x == CHOOSE y \in S : TRUE
         IN  f[x] + SumOver(f, S \ {x})

Max(a, b) == IF a >= b THEN a ELSE b

NoAnalytics ==
    [status |-> 0, patient_id |-> 0, days |-> 0, called_at |-> 0,
     time_series |-> <<>>, day_night_distribution |-> [k \in DayNightKeys |-> 0],
     total_days |-> 0, active_days |-> 0, average_daily_minutes |-> RatOfInt(0)]

AnalyticsResponse(p, days, start_date, sessions) ==
    LET daily_usage == DailyUsage(sessions)
        total == SumOver(daily_usage, DOMAIN daily_usage)
        n == Cardinality(DOMAIN daily_usage)
    IN  IF DayNightRaises(sessions)
        THEN [NoAnalytics EXCEPT !.status = 500, !.patient_id = p,
                                 !.days = days, !.called_at = now]
        ELSE [status |-> 200, patient_id |-> p, days |-> days,
              called_at |-> now,
              time_series |-> TimeSeries(start_date, now, daily_usage),
              day_night_distribution |-> DayNightUsage(sessions),
              total_days |-> n,
              active_days |->
                  Cardinality({d \in DOMAIN daily_usage : daily_usage[d] > 0}),
              average_daily_minutes |-> Rat(total, Max(n, 1))]

GetPatientAnalytics(p, days, ok) ==
    /\ ana' = IF ok
              THEN AnalyticsResponse(p, days, now - Days(days),
                                     SessionsSinceSorted(p, now - Days(days)))
              ELSE [NoAnalytics EXCEPT !.status = 500, !.patient_id = p,
                                       !.days = days, !.called_at = now]
    /\ UNCHANGED <<now, uuid, users, usage_sessions, bluetooth_devices,
                   active_connections, sockets, inbox, rec, comp, usage, roster,
                   logins>>

-----------------------------------------------------------------------------
(* GET /patients/{patient_id}/usage: get_patient_usage. The one await is   *)
(* the find.                                                               *)

\* .sort("created_at", -1): descending, equal keys in insertion order; the
\* sessions of the latest time first, then those of the next one, and so on.
RECURSIVE ByCreatedDesc(_, _)
ByCreatedDesc(s, times) ==
    IF times = {} THEN <<>>
    ELSE LET latest == CHOOSE t \in times : \A u \in times : u <= t
             At(x) == x.created_at = latest
         IN  SelectSeq(s, At) \o ByCreatedDesc(s, times \ {latest})
SortByCreatedDesc(s) ==
    ByCreatedDesc(s, {s[i].created_at : i \in 1..Len(s)})

NoUsage ==
    [status |-> 0, patient_id |-> 0, days |-> 0, called_at |-> 0,
     sessions |-> <<>>]

\* find({...}).sort("created_at", -1).to_list(1000), returned as it is.
GetPatientUsage(p, days, ok) ==
    /\ usage' =
           IF ok
           THEN LET Match(x) == x.patient_id = p
                                /\ x.created_at >= now - Days(days)
                IN  [status |-> 200, patient_id |-> p, days |-> days,
                     called_at |-> now,
                     sessions |->
                         Take(SortByCreatedDesc(SelectSeq(usage_sessions, Match)),
                              SessionFetchLimit)]
           ELSE [NoUsage EXCEPT !.status = 500, !.patient_id = p,
                                !.days = days, !.called_at = now]
    /\ UNCHANGED <<now, uuid, users, usage_sessions, bluetooth_devices,
                   active_connections, sockets, inbox, rec, comp, ana, roster,
                   logins>>

-----------------------------------------------------------------------------
(* The clock. A request is short against a tick: time moves between        *)
(* requests.                                                               *)

Quiet ==
    /\ \A r \in RecIds : rec[r].pc = "idle"
    /\ comp.pc = "idle"
    /\ roster.pc = "idle"
    /\ \A l \in LoginIds : logins[l].pc = "idle"

Advance(ticks, horizon) ==
    /\ Quiet
    /\ now + ticks <= horizon
    /\ now' = now + ticks
    /\ UNCHANGED <<uuid, users, usage_sessions, bluetooth_devices,
                   active_connections, sockets, inbox, rec, comp, ana, usage, roster,
                   logins>>

-----------------------------------------------------------------------------
(* Initial states. The database outlives the process: a run starts with    *)
(* the users that earlier logins created.                                  *)

InitialUsers ==
    <<UserDoc(1, "ann", "patient", "P1", ""),
      UserDoc(2, "bob", "patient", "P2", "")>>

InitWith(us, ss) ==
    /\ now = 0
    /\ uuid = Len(us)
    /\ users = us
    /\ usage_sessions = ss
    /\ bluetooth_devices = <<>>
    /\ active_connections = [u \in {} |-> 0]
    /\ sockets = [k \in SockIds |-> [user |-> 0, state |-> "new"]]
    /\ inbox = [k \in SockIds |-> <<>>]
    /\ rec = [r \in RecIds |-> RecIdle]
    /\ comp = CompIdle
    /\ ana = NoAnalytics
    /\ usage = NoUsage
    /\ roster = RosterIdle
    /\ logins = [l \in LoginIds |-> LoginIdle]

Init == InitWith(InitialUsers, <<>>)

-----------------------------------------------------------------------------
(* Spec: the usage reports of one patient.                                 *)

\* The report bodies a device sends: a good one, a negative duration, an
\* unknown time of day, a duration that is no integer.
Reports(p, d) ==
    {BluetoothData(p, d, 120, "day", now, TRUE),
     BluetoothData(p, d, -5, "night", now, TRUE),
     BluetoothData(p, d, 120, "evening", now, TRUE),
     BluetoothData(p, d, 0, "day", now, FALSE)}

Next ==
    \/ AddPatientDevice(1, "ESP Device", "d1")
    \/ \E r \in RecIds : \E data \in Reports(1, "d1") :
          ReceiveBluetoothData(r, data)
    \/ \E r \in RecIds : \E ok \in BOOLEAN : InsertSession(r, ok)
    \/ \E r \in RecIds : \E ok \in BOOLEAN : UpdateDevice(r, ok)
    \/ \E r \in RecIds : SendUpdate(r, FALSE)
    \/ \E r \in RecIds : RecReturn(r)

Spec == Init /\ [][Next]_vars

\* What the data model asks of a report: usageDurationMinutes >= 0 and
\* timeOfDay one of day, night.
ValidReport(data) ==
    /\ data.usage_duration_is_int
    /\ data.usage_duration >= 0
    /\ data.time_of_day \in {"day", "night"}

\* C1: a report with a negative duration or an unknown time of day is
\* rejected as invalid input before any write, so every stored session has
\* duration_minutes >= 0 and time_of_day in {day, night}.
C1_InvalidReportRejected ==
    /\ \A r \in RecIds :
          rec[r].pc = "done" /\ ~ValidReport(rec[r].data)
              => rec[r].error = "invalid"
    /\ \A i \in 1..Len(usage_sessions) :
          /\ usage_sessions[i].duration_minutes >= 0
          /\ usage_sessions[i].time_of_day \in {"day", "night"}

-----------------------------------------------------------------------------
(* SpecDevices: device registration, usage reports and the compliance      *)
(* summary of one patient.                                                 *)

DeviceIds == {"d1", "d2"}

NextDevices ==
    \/ Advance(1, DevicesHorizon)
    \/ \E p \in {1, 2} : AddPatientDevice(p, "ESP Device", "d1")
    \/ \E d \in DeviceIds :
          ReceiveBluetoothData(1, BluetoothData(1, d, 120, "day", now, TRUE))
    \/ InsertSession(1, TRUE)
    \/ \E ok \in BOOLEAN : UpdateDevice(1, ok)
    \/ SendUpdate(1, FALSE)
    \/ RecReturn(1)
    \/ GetPatientCompliance(1)
    \/ CompFindUser(TRUE)
    \/ CompFetchSessions(TRUE)
    \/ \E ok \in BOOLEAN : CompFindDevice(ok)
    \/ CompLastWeek(TRUE)
    \/ CompPrevWeek(TRUE)
    \/ CompReturn

SpecDevices == Init /\ [][NextDevices]_vars

Registered(d, p) ==
    {j \in 1..Len(bluetooth_devices) :
        bluetooth_devices[j].device_id = d /\ bluetooth_devices[j].patient_id = p}

DevicesOf(p) ==
    {j \in 1..Len(bluetooth_devices) : bluetooth_devices[j].patient_id = p}

Succeeded(r) == rec[r].pc = "done" /\ rec[r].status = 200

-----------------------------------------------------------------------------
(* SpecChannel: usage reports and the patient's websockets.                *)

NextChannel ==
    \/ \E k \in SockIds : WsConnect(k, 1)
    \/ \E k \in SockIds : WsClientClose(k)
    \/ \E k \in SockIds : WsDisconnect(k)
    \/ \E k \in SockIds : WsBadMessage(k)
    \/ \E r \in RecIds : ReceiveBluetoothData(r, BluetoothData(1, "d1", 120, "day", now, TRUE))
    \/ \E r \in RecIds : \E ok \in BOOLEAN : InsertSession(r, ok)
    \/ \E r \in RecIds : \E ok \in BOOLEAN : UpdateDevice(r, ok)
    \/ \E r \in RecIds : \E raises \in BOOLEAN : SendUpdate(r, raises)
    \/ \E r \in RecIds : RecReturn(r)

SpecChannel == Init /\ [][NextChannel]_vars

Stored(session) ==
    \E i \in 1..Len(usage_sessions) : usage_sessions[i] = session

\* C3: a failure to deliver usage_update never fails the report: once the
\* session is appended and the device update is through, the response is
\* the created session, with no error.
C3_DeliveryFailureSwallowed ==
    \A r \in RecIds :
        rec[r].pc = "done" /\ Stored(rec[r].session) /\ rec[r].error # "storage"
            => rec[r].status = 200 /\ rec[r].error = "none"

-----------------------------------------------------------------------------
(* SpecTrend: the reports of one patient over five weeks, and the          *)
(* compliance summary with its week-over-week trend.                       *)

TrendDurations == {90, 100, 110, -100}
TrendJumps == {Days(TrendWindowDays), Days(TrendWindowDays) + 1,
               Days(ComplianceWindowDays - 2 * TrendWindowDays)}
TrendHorizon == Days(ComplianceWindowDays) + TrendSlack

NextTrend ==
    \/ \E ticks \in TrendJumps : Advance(ticks, TrendHorizon)
    \/ \E dur \in TrendDurations :
          ReceiveBluetoothData(1, BluetoothData(1, "d1", dur, "day", now, TRUE))
    \/ InsertSession(1, TRUE)
    \/ UpdateDevice(1, TRUE)
    \/ SendUpdate(1, FALSE)
    \/ RecReturn(1)
    \/ GetPatientCompliance(1)
    \/ CompFindUser(TRUE)
    \/ CompFetchSessions(TRUE)
    \/ CompFindDevice(TRUE)
    \/ CompLastWeek(TRUE)
    \/ CompPrevWeek(TRUE)
    \/ CompReturn

SpecTrend == Init /\ [][NextTrend]_vars

\* The patient's stored sessions created in [from, to], by index.
StoredIn(p, from, to) ==
    {i \in 1..Len(usage_sessions) :
        /\ usage_sessions[i].patient_id = p
        /\ usage_sessions[i].created_at >= from
        /\ usage_sessions[i].created_at <= to}

\* The minutes of the sessions of seq whose index is in S.
RECURSIVE MinutesOf(_, _, _, _)
MinutesOf(seq, S, lo, hi) ==
    IF lo > hi THEN 0
    ELSE IF lo = hi THEN (IF lo \in S THEN seq[lo].duration_minutes ELSE 0)
    ELSE LET mid == (lo + hi) \div 2
         IN  MinutesOf(seq, S, lo, mid) + MinutesOf(seq, S, mid + 1, hi)

StoredMinutes(S) == MinutesOf(usage_sessions, S, 1, Len(usage_sessions))

\* The trend the claim gives for a recent-week total R and a previous-week
\* total P, in integers: changePct > 10 is 100 (R - P) > 10 P for P > 0 and
\* 100 (R - P) < 10 P for P < 0, and a percentage of t tenths is
\* |changePct| to one decimal when it is within half a tenth of it.
TrendAsClaimed(trend, R, P) ==
    IF P = 0
    THEN /\ R > 0 => trend = Trend("increasing", 1000)
         /\ R = 0 => trend = Trend("stable", 0)
    ELSE LET up == IF P > 0 THEN 100 * (R - P) > 10 * P
                            ELSE 100 * (R - P) < 10 * P
             down == IF P > 0 THEN 100 * (R - P) < -10 * P
                              ELSE 100 * (R - P) > -10 * P
         IN  /\ trend.direction = "increasing" <=> up
             /\ trend.direction = "decreasing" <=> down
             /\ trend.direction = "stable" <=> ~up /\ ~down
             /\ trend.tenths >= 0
             /\ 2 * Abs(trend.tenths * Abs(P) - 1000 * Abs(R - P)) <= Abs(P)

C10_EmptyWindowSummary ==
    comp.pc = "done" /\ comp.response.status = 200
        /\ StoredIn(comp.patient_id, comp.called_at - Days(30), comp.called_at) = {}
    =>  /\ comp.response.total_sessions = 0
        /\ comp.response.total_duration_minutes = 0
        /\ RatEQ(comp.response.compliance_percentage, RatOfInt(0))
        /\ comp.response.last_session = Absent
        /\ comp.response.usage_trend = Trend("stable", 0)

\* C10's case: the patient's only sessions are older than 30 days.
C10_Witness ==
    /\ comp.pc = "done"
    /\ comp.response.status = 200
    /\ StoredIn(comp.patient_id, comp.called_at - Days(30), comp.called_at) = {}
    /\ StoredIn(comp.patient_id, 0, comp.called_at) # {}
    /\ comp.response.total_sessions = 0

-----------------------------------------------------------------------------
(* SpecBulk: a patient whose log holds about as many sessions as one find  *)
(* returns, left there by earlier reports.                                 *)

BulkSession(i) ==
    [id |-> -i, patient_id |-> 1, device_id |-> "d1", start_time |-> -1,
     end_time |-> -1, duration_minutes |-> 14, time_of_day |-> "day",
     compliance_score |-> ComplianceScore(14), created_at |-> -1]

InitBulk ==
    \E n \in (SessionFetchLimit - BulkSlack)..(SessionFetchLimit + BulkSlack) :
        InitWith(InitialUsers, [i \in 1..n |-> BulkSession(i)])

BulkDurations == {500, 6300, 7700}
BulkJumps == {Days(TrendWindowDays)}
BulkHorizon == Days(TrendWindowDays)

NextBulk ==
    \/ \E ticks \in BulkJumps : Advance(ticks, BulkHorizon)
    \/ \E dur \in BulkDurations :
          ReceiveBluetoothData(1, BluetoothData(1, "d1", dur, "day", now, TRUE))
    \/ InsertSession(1, TRUE)
    \/ UpdateDevice(1, TRUE)
    \/ SendUpdate(1, FALSE)
    \/ RecReturn(1)
    \/ GetPatientCompliance(1)
    \/ CompFindUser(TRUE)
    \/ CompFetchSessions(TRUE)
    \/ CompFindDevice(TRUE)
    \/ CompLastWeek(TRUE)
    \/ CompPrevWeek(TRUE)
    \/ CompReturn

SpecBulk == InitBulk /\ [][NextBulk]_vars

Min(a, b) == IF a <= b THEN a ELSE b

\* The summary's figures are those of the fetched sessions: their count,
\* their minutes, and min(100, minutes / (30 * 480) * 100).
FiguresOfFetched ==
    comp.pc = "done" /\ comp.response.status = 200 =>
        LET total == MinutesOf(comp.sessions, 1..Len(comp.sessions), 1,
                               Len(comp.sessions))
        IN  /\ comp.response.total_sessions = Len(comp.sessions)
            /\ comp.response.total_duration_minutes = total
            /\ IF total * 100 >= 100 * (30 * 480)
               THEN RatEQ(comp.response.compliance_percentage, RatOfInt(100))
               ELSE RatEQ(comp.response.compliance_percentage,
                          Rat(total * 100, 30 * 480))

\* fetched holds min(count, 1000) of the stored sessions W, each at most
\* once and no other session: all of W when W has at most 1000.
FetchedFrom(fetched, W) ==
    LET ids == {fetched[k].id : k \in 1..Len(fetched)}
    IN  /\ Len(fetched) = Min(Cardinality(W), 1000)
        /\ Cardinality(ids) = Len(fetched)
        /\ ids \subseteq {usage_sessions[i].id : i \in W}
        /\ Cardinality(W) <= 1000 => TotalDuration(fetched) = StoredMinutes(W)

-----------------------------------------------------------------------------
(* SpecAnalytics: reports on different days and analytics requests over    *)
(* windows of several lengths.                                             *)

AnalyticsWindows == {-2, 0, 1, 3}
AnalyticsTimesOfDay == {"day", "evening"}

NextAnalytics ==
    \/ Advance(1, Days(AnalyticsHorizonDays))
    \/ \E tod \in AnalyticsTimesOfDay :
          ReceiveBluetoothData(1, BluetoothData(1, "d1", 60, tod, now, TRUE))
    \/ InsertSession(1, TRUE)
    \/ UpdateDevice(1, TRUE)
    \/ SendUpdate(1, FALSE)
    \/ RecReturn(1)
    \/ \E days \in AnalyticsWindows, ok \in BOOLEAN :
          GetPatientAnalytics(1, days, ok)

SpecAnalytics == Init /\ [][NextAnalytics]_vars

\* The dates of a series run day by day from the calendar day of start.
DenseFrom(series, start) ==
    \A k \in 1..Len(series) : series[k].date = DateKey(start) + (k - 1)

\* Every point of a series carries the minutes of the patient's stored
\* sessions created on its day and not before start (0 when there is none).
MinutesPerDay(series, p, start) ==
    \A k \in 1..Len(series) :
        series[k].usage_minutes =
            StoredMinutes({i \in 1..Len(usage_sessions) :
                              /\ usage_sessions[i].patient_id = p
                              /\ usage_sessions[i].created_at >= start
                              /\ DateKey(usage_sessions[i].created_at) =
                                     series[k].date})

-----------------------------------------------------------------------------
(* SpecRoster: a user store holding a doctor and about as many patients as *)
(* one find returns, one of them with a session; the storage may fail on   *)
(* the lookups of two of the patients.                                     *)

RosterUsers(n) ==
    [i \in 1..(n + 1) |->
        IF i = 1 THEN UserDoc(-(n + 1), "dr", "doctor", "", "D1")
        ELSE UserDoc(-(i - 1), "pat", "patient", "P", "")]

RosterSession ==
    [id |-> 0, patient_id |-> -1, device_id |-> "d1", start_time |-> -1,
     end_time |-> -1, duration_minutes |-> 120, time_of_day |-> "day",
     compliance_score |-> ComplianceScore(120), created_at |-> -1]

InitRoster ==
    \E n \in (PatientFetchLimit - RosterSlack)..(PatientFetchLimit + RosterSlack) :
        InitWith(RosterUsers(n), <<RosterSession>>)

RosterFailing == {-2, -PatientFetchLimit}
MayFail(ok) == ok \/ comp.patient_id \in RosterFailing

NextRoster ==
    \/ GetDoctorPatients
    \/ \E ok \in BOOLEAN : RosterFindPatients(ok)
    \/ RosterCall
    \/ \E ok \in BOOLEAN : MayFail(ok) /\ CompFindUser(ok)
    \/ \E ok \in BOOLEAN : MayFail(ok) /\ CompFetchSessions(ok)
    \/ \E ok \in BOOLEAN : MayFail(ok) /\ CompFindDevice(ok)
    \/ \E ok \in BOOLEAN : MayFail(ok) /\ CompLastWeek(ok)
    \/ \E ok \in BOOLEAN : MayFail(ok) /\ CompPrevWeek(ok)
    \/ RosterCollect
    \/ RosterReturn

SpecRoster == InitRoster /\ [][NextRoster]_vars

\* The stored patients, in the order of the store.
StoredPatients ==
    LET IsPatient(x) == x.user_type = "patient"
    IN  SelectSeq(users, IsPatient)

\* The zero-valued summary of a patient, under the patient's id and name.
ZeroValued(e, patient) ==
    /\ e.patient_id = patient.id
    /\ e.patient_name = patient.name
    /\ e.total_sessions = 0
    /\ e.total_duration_minutes = 0
    /\ RatEQ(e.average_daily_usage, RatOfInt(0))
    /\ RatEQ(e.compliance_percentage, RatOfInt(0))
    /\ e.last_session = Absent
    /\ e.device_connected = FALSE

\* The roster gains one entry per getCompliance call, for the patient at
\* that place of the store: the call's result, or the zero-valued summary
\* when the call failed; and it fails only when the listing itself fails.
EntryPerCall ==
    /\ [][roster.pc = "wait" /\ roster'.pc # "wait" =>
            LET k == Len(roster'.out)
                e == roster'.out[k]
            IN  /\ k = Len(roster.out) + 1
                /\ SubSeq(roster'.out, 1, k - 1) = roster.out
                /\ IF comp.response.status = 200
                   THEN e = comp.response /\ e.patient_id = StoredPatients[k].id
                   ELSE ZeroValued(e, StoredPatients[k])]_vars
    /\ [](roster.pc = "done" /\ roster.status # 200 => roster.out = <<>> /\ roster.idx = 0)

-----------------------------------------------------------------------------
(* SpecLogin: logins on an empty user store, two requests at a time.       *)

LoginInputs ==
    {UserLogin("ann", "P1", "", "patient"),
     UserLogin("dan", "", "D1", "doctor"),
     UserLogin("ann", "", "", "patient")}

NextLogin ==
    \/ \E l \in LoginIds : \E data \in LoginInputs : Login(l, data)
    \/ \E l \in LoginIds : LoginFind(l)
    \/ \E l \in LoginIds : LoginInsert(l)
    \/ \E l \in LoginIds : LoginReturn(l)

InitLogin == InitWith(<<>>, <<>>)

SpecLogin == InitLogin /\ [][NextLogin]_vars

\* (name, role identifier, role type) of a user or of a login.
Triple(x) ==
    <<x.name, IF x.user_type = "patient" THEN x.patient_id ELSE x.doctor_id,
      x.user_type>>

\* C8: for every triple with a role identifier, the user store holds at
\* most one user, and the logins with that triple answer with the same id.
C8_OneIdentityPerTriple ==
    /\ \A i, j \in 1..Len(users) :
           Triple(users[i]) = Triple(users[j]) /\ Triple(users[i])[2] # ""
               => i = j
    /\ \A l, m \in LoginIds :
           /\ logins[l].pc = "done"
           /\ logins[m].pc = "done"
           /\ logins[l].data = logins[m].data
           /\ Triple(logins[l].data)[2] # ""
           => logins[l].user.id = logins[m].user.id

-----------------------------------------------------------------------------
(* SpecScore: reports with durations around the daily target.              *)

ScoreDurations == {-5, 0, 1, 120, 479, 480, 481, 600}

NextScore ==
    \/ \E r \in RecIds : \E dur \in ScoreDurations :
          ReceiveBluetoothData(r, BluetoothData(1, "d1", dur, "day", now, TRUE))
    \/ \E r \in RecIds : \E ok \in BOOLEAN : InsertSession(r, ok)
    \/ \E r \in RecIds : UpdateDevice(r, TRUE)
    \/ \E r \in RecIds : SendUpdate(r, FALSE)
    \/ \E r \in RecIds : RecReturn(r)

SpecScore == Init /\ [][NextScore]_vars

\* The stored sessions with a non-negative duration, by index.
NonNegative == {i \in 1..Len(usage_sessions) :
                   usage_sessions[i].duration_minutes >= 0}

\* C9: every stored session of non-negative duration d carries the score
\* min(100, d / 480 * 100): 100 d / 480 below 480 minutes and 100 from there
\* on, so 0 at 0 minutes and never above 100; and of two stored sessions the
\* longer one has no lower score.
C9_ScoreIsCappedShare ==
    /\ \A i \in NonNegative :
           LET d == usage_sessions[i].duration_minutes
               score == usage_sessions[i].compliance_score
           IN  /\ score[2] > 0
               /\ IF d >= 480 THEN score[1] = 100 * score[2]
                              ELSE score[1] * 480 = 100 * d * score[2]
               /\ d = 0 => score[1] = 0
               /\ score[1] <= 100 * score[2]
    /\ \A i, j \in NonNegative :
           usage_sessions[i].duration_minutes <= usage_sessions[j].duration_minutes
               => RatLE(usage_sessions[i].compliance_score,
                        usage_sessions[j].compliance_score)

\* C9's case: a stored session below the target with a score below 100 and
\* one above the target with the score 100.
C9_Witness ==
    \E i, j \in NonNegative :
        /\ usage_sessions[i].duration_minutes = 479
        /\ RatLT(usage_sessions[i].compliance_score, RatOfInt(100))
        /\ usage_sessions[j].duration_minutes = 600
        /\ RatEQ(usage_sessions[j].compliance_score, RatOfInt(100))

-----------------------------------------------------------------------------
(* SpecLog: two reports of one patient at a time, next to every reader of  *)
(* the session log.                                                        *)

NextLog ==
    \/ \E r \in RecIds :
          ReceiveBluetoothData(r, BluetoothData(1, "d1", 60, "day", now, TRUE))
    \/ \E r \in RecIds : \E ok \in BOOLEAN : InsertSession(r, ok)
    \/ \E r \in RecIds : \E ok \in BOOLEAN : UpdateDevice(r, ok)
    \/ \E r \in RecIds : SendUpdate(r, FALSE)
    \/ \E r \in RecIds : RecReturn(r)
    \/ GetPatientCompliance(1)
    \/ CompFindUser(TRUE)
    \/ CompFetchSessions(TRUE)
    \/ CompFindDevice(TRUE)
    \/ CompLastWeek(TRUE)
    \/ CompPrevWeek(TRUE)
    \/ CompReturn
    \/ GetPatientAnalytics(1, 1, TRUE)
    \/ GetPatientUsage(1, 7, TRUE)
    \/ GetDoctorPatients
    \/ RosterFindPatients(TRUE)
    \/ RosterCall
    \/ RosterCollect
    \/ RosterReturn

SpecLog == Init /\ [][NextLog]_vars

\* The stored sessions under an id, by index.
StoredUnder(id) == {i \in 1..Len(usage_sessions) : usage_sessions[i].id = id}

\* C11: the session log changes only by a report's insert, which appends
\* that report's one session under an id no stored session has and leaves
\* the stored sessions as they are; every report answered with success has
\* exactly one session in the log, and two reports answered with success at
\* the same time have two different ones.
C11_AppendOnlyLog ==
    /\ [][usage_sessions' # usage_sessions =>
            \E r \in RecIds :
                /\ rec[r].pc = "insert"
                /\ rec'[r].pc = "update"
                /\ StoredUnder(rec[r].session.id) = {}
                /\ usage_sessions' = Append(usage_sessions, rec[r].session)]_vars
    /\ [][\A r \in RecIds :
            rec[r].pc = "insert" /\ rec'[r].pc = "update" =>
                Len(usage_sessions') = Len(usage_sessions) + 1]_vars
    /\ [](\A r \in RecIds :
            rec[r].pc = "done" /\ rec[r].status = 200 =>
                /\ Cardinality(StoredUnder(rec[r].session.id)) = 1
                /\ \A i \in StoredUnder(rec[r].session.id) :
                       usage_sessions[i] = rec[r].session)
    /\ [](\A r, q \in RecIds :
            /\ r # q
            /\ rec[r].pc = "done" /\ rec[r].status = 200
            /\ rec[q].pc = "done" /\ rec[q].status = 200
            => rec[r].session.id # rec[q].session.id)

\* C11's case: two reports of the patient, in flight together, both
\* answered with success, and the two sessions in the log.
C11_Witness ==
    /\ \A r \in RecIds : rec[r].pc = "done" /\ rec[r].status = 200
    /\ rec[1].session.id # rec[2].session.id
    /\ Len(usage_sessions) = 2
    /\ \A i \in 1..2 : usage_sessions[i].patient_id = 1

-----------------------------------------------------------------------------
(* SpecEvent: a patient with a long session log and an open channel; the   *)
(* reports publish usage_update, and the patient queries after them.       *)

InitEvent ==
    \E n \in (SessionFetchLimit - BulkSlack)..SessionFetchLimit :
        InitWith(InitialUsers, [i \in 1..n |-> BulkSession(i)])

NextEvent ==
    \/ WsConnect(1, 1)
    \/ AddPatientDevice(1, "ESP Device", "d1")
    \/ ReceiveBluetoothData(1, BluetoothData(1, "d1", 500, "day", now, TRUE))
    \/ InsertSession(1, TRUE)
    \/ UpdateDevice(1, TRUE)
    \/ SendUpdate(1, FALSE)
    \/ RecReturn(1)
    \/ GetPatientCompliance(1)
    \/ CompFindUser(TRUE)
    \/ CompFetchSessions(TRUE)
    \/ CompFindDevice(TRUE)
    \/ CompLastWeek(TRUE)
    \/ CompPrevWeek(TRUE)
    \/ CompReturn
    \/ GetPatientUsage(1, 7, TRUE)

SpecEvent == InitEvent /\ [][NextEvent]_vars

\* The sessions of patient p whose usage_update a client has been sent.
Published(p) ==
    {x \in UNION {{inbox[k][i].data : i \in 1..Len(inbox[k])} : k \in SockIds} :
        x.patient_id = p}

Elements(seq) == {seq[i] : i \in 1..Len(seq)}

\* Within one report: the session is in the store, and the device (when it
\* is registered) marked connected no earlier than the session's creation,
\* when usage_update is sent; the event carries the session of the
\* response; no event is out for a session that is not in the store.
OrderOfEffects ==
    /\ [][\A r \in RecIds :
            rec[r].pc = "send" /\ rec'[r].pc = "done" =>
                LET u == rec[r].data.patient_id
                    D == {j \in 1..Len(bluetooth_devices) :
                             /\ bluetooth_devices[j].device_id = rec[r].data.device_id
                             /\ bluetooth_devices[j].patient_id = u}
                IN  /\ Stored(rec[r].session)
                    /\ D # {} =>
                           bluetooth_devices[FirstIndex(D)].last_connected >=
                               rec[r].session.created_at
                    /\ rec'[r].session = rec[r].session
                    /\ \A k \in SockIds :
                           inbox'[k] # inbox[k] =>
                               inbox'[k] = Append(inbox[k],
                                                  [type |-> "usage_update",
                                                   data |-> rec'[r].session])]_vars
    /\ [](\A k \in SockIds : \A i \in 1..Len(inbox[k]) :
            inbox[k][i].type = "usage_update" => Stored(inbox[k][i].data))

C13_SummaryFromOneView ==
    comp.pc = "done" /\ comp.response.status = 200 =>
        /\ TotalDuration(comp.last_week) <= comp.response.total_duration_minutes
        /\ comp.response.total_sessions = 0 =>
               comp.response.usage_trend = Trend("stable", 0)

\* An accepted websocket whose handler has seen no disconnect.
Live(k) == sockets[k].state \in {"open", "closing"}

\* C14: every user with an accepted websocket whose handler has seen no
\* disconnect is registered in active_connections under such a websocket.
C14_OpenSocketStaysRegistered ==
    \A k \in SockIds :
        Live(k) =>
            /\ sockets[k].user \in DOMAIN active_connections
            /\ Live(active_connections[sockets[k].user])

-----------------------------------------------------------------------------
(* SpecDayNight: successful reports with the times of day a client may     *)
(* name, and analytics requests on a working store once the reports have   *)
(* been answered.                                                          *)

DayNightTimesOfDay == {"day", "night", "evening"}
DayNightWindows == {0, 1}

NextDayNight ==
    \/ Advance(1, Days(1))
    \/ \E tod \in DayNightTimesOfDay :
          ReceiveBluetoothData(1, BluetoothData(1, "d1", 60, tod, now, TRUE))
    \/ InsertSession(1, TRUE)
    \/ UpdateDevice(1, TRUE)
    \/ SendUpdate(1, FALSE)
    \/ RecReturn(1)
    \/ \E days \in DayNightWindows :
          rec[1].pc = "idle" /\ GetPatientAnalytics(1, days, TRUE)

SpecDayNight == Init /\ [][NextDayNight]_vars

RECURSIVE SeriesMinutes(_, _)
SeriesMinutes(series, k) ==
    IF k = 0 THEN 0 ELSE series[k].usage_minutes + SeriesMinutes(series, k - 1)

\* C15: with the store working and every stored session left by a report
\* that succeeds, an analytics request returns a result, in which the day
\* and night totals add up to the minutes of the daily buckets.
C15_AnalyticsAfterReports ==
    /\ ana.status # 500
    /\ ana.status = 200 =>
           ana.day_night_distribution["day"] + ana.day_night_distribution["night"]
               = SeriesMinutes(ana.time_series, Len(ana.time_series))

====
